---------------------------- MODULE Spec2Model ----------------------------
(***************************************************************************)
(* A model of duplicate-finder's scan pipeline (src/src/scanner.rs,        *)
(* src/src/lib.rs): FileScanner::scan runs validate_config, discover_files,*)
(* process_files, group_duplicates and then forms the ScanResult.          *)
(*                                                                         *)
(* The file system is a finite tree of entries.  A path is a sequence of   *)
(* names and a name is a sequence of characters, so that is_hidden reads   *)
(* the first character of the last component as the code does.  A file's   *)
(* content is a sequence of bytes; its size is the length of the content   *)
(* and its digest is computed from the content.                            *)
(***************************************************************************)
EXTENDS Integers, Sequences, FiniteSets, TLC

(***************************************************************************)
(* Bounds of the model.                                                    *)
(***************************************************************************)
\* entries below the root in the trees of the traversal specification
MaxNodes == 3
\* largest max_depth setting tried by the traversal specification
MaxDepthCfg == 2
\* entries below the root in the end-to-end specification
MaxFiles == 2
\* largest min_size / max_size setting tried by the end-to-end specification
MaxSizeCfg == 2
\* rewrites of files by other processes while the scan hashes
MaxWrites == 1
\* records handed to group_duplicates by the grouping specification
MaxRecords == 3
\* largest size of a record in the grouping specification
MaxRecSize == 2
\* largest modified-time of a record in the grouping specification
MaxRecTime == 1
\* paths handed to process_files by the hashing specification
MaxPaths == 3
\* paths beyond one full batch in the batching specification
MaxOver == 1
\* entries below the root in the specification with failing entries
MaxLiveNodes == 2
\* subdirectories of the small directories of the fan-out specification
MaxFewDirs == 3
\* fan-outs tried above the least one that exceeds the ceiling
MaxPendingOver == 1

\* the byte values file contents are made of
Bytes == {0, 1}
\* the settings of --threads tried (0 = automatic)
ThreadCounts == {0, 1}
\* logical cores reported by num_cpus::get()
NumCpus == 1

(***************************************************************************)
(* Constants of the program.                                               *)
(***************************************************************************)
MAX_PENDING_DIRS == 10000
BATCH_SIZE == 100
\* the length of the buffer calculate_file_hash reads into
BUFFER_SIZE == 65536

VARIABLES
  config,       \* FileScanner.config: the Cli settings the scanner reads
  fs,           \* the file system below config.directory
  pc,           \* the position of scan()
  dir_stack,    \* discover_files: the stack of (directory, depth)
  file_paths,   \* discover_files: the candidate paths collected
  scanned,      \* discover_files: directories announced by "Scanning directory"
  batch_start,  \* process_files: index of the first path of the current batch
  tasks,        \* process_files: the tasks spawned for the current batch
  permits,      \* FileScanner.semaphore: available permits
  file_infos,   \* process_files: the records collected
  groups,       \* scan: duplicate_groups as returned by group_duplicates
  result,       \* scan: the value returned
  writes,       \* rewrites done so far by other processes
  dropped       \* process_files: the tasks awaited that gave no record

vars == <<config, fs, pc, dir_stack, file_paths, scanned, batch_start, tasks,
          permits, file_infos, groups, result, writes, dropped>>

(***************************************************************************)
(* Sequences.                                                              *)
(***************************************************************************)
Range(s) == {s[i] : i \in DOMAIN s}

Reverse(s) == [i \in 1..Len(s) |-> s[Len(s) + 1 - i]]

RECURSIVE SumSeq(_)
SumSeq(s) == IF s = <<>> THEN 0 ELSE Head(s) + SumSeq(Tail(s))

RECURSIVE SeqsUpTo(_, _)
\* all sequences over S of length at most n
SeqsUpTo(S, n) ==
  IF n = 0 THEN {<<>>}
  ELSE LET shorter == SeqsUpTo(S, n - 1)
       IN  shorter \cup {Append(s, x) : s \in {t \in shorter : Len(t) = n - 1}, x \in S}

(***************************************************************************)
(* The file system.  Entry 0 is the scanned directory itself; entries      *)
(* 1..n lie below it, fs[n].parent being the directory that lists n.       *)
(* read_dir returns the entries of a directory in ascending order of n.    *)
(* kind is the entry's own type, what DirEntry::metadata and              *)
(* Path::is_symlink report without following a link; target is the type of *)
(* what a symbolic link resolves to.                                       *)
(***************************************************************************)
Nodes == DOMAIN fs

RECURSIVE PathOf(_)
PathOf(n) == IF n = 0 THEN config.directory
             ELSE Append(PathOf(fs[n].parent), fs[n].name)

RECURSIVE DepthOf(_)
\* number of path components of n below the scanned directory
DepthOf(n) == IF n = 0 THEN 0 ELSE 1 + DepthOf(fs[n].parent)

RECURSIVE Ancestors(_)
\* the entries strictly between the scanned directory and n, and n itself
Ancestors(n) == IF n = 0 THEN {} ELSE {n} \cup Ancestors(fs[n].parent)

\* the entry a path names, 0 for the scanned directory, -1 when there is none
Lookup(path) ==
  IF path = config.directory THEN 0
  ELSE LET hits == {n \in Nodes : PathOf(n) = path}
       IN  IF hits = {} THEN -1 ELSE CHOOSE n \in hits : TRUE

SizeOfNode(n) == Len(fs[n].content)


(***************************************************************************)
(* discover_files (scanner.rs 154-259) and the predicates it calls.        *)
(***************************************************************************)
\* a hidden-name test that finds no name hidden
NeverHidden(path) == FALSE

\* Path::file_name, its first character read by starts_with('.')
is_hidden(path) ==
  IF path = <<>> THEN FALSE
  ELSE LET name == path[Len(path)]
       IN  name # <<>> /\ Head(name) = "."

\* a size filter whose two bounds are exclusive
FilterWithExclusiveBounds(size) ==
  IF config.exclude_empty /\ size = 0 THEN FALSE
  ELSE IF size <= config.min_size THEN FALSE
  ELSE IF config.max_size > 0 /\ size >= config.max_size THEN FALSE
  ELSE TRUE

\* a size filter that does not read exclude_empty
FilterWithoutExcludeEmpty(size) ==
  IF size < config.min_size THEN FALSE
  ELSE IF config.max_size > 0 /\ size > config.max_size THEN FALSE
  ELSE TRUE

file_passes_size_filter(size) ==
  IF config.exclude_empty /\ size = 0 THEN FALSE
  ELSE IF size < config.min_size THEN FALSE
  ELSE IF config.max_size > 0 /\ size > config.max_size THEN FALSE
  ELSE TRUE

\* the entries read_dir lists for directory d, in the order it lists them
Entries(d) ==
  LET listed(n) == fs[n].parent = d
  IN  SelectSeq([n \in 1..(Cardinality(Nodes) - 1) |-> n], listed)

\* fs::read_dir(path) succeeds
ReadDirOk(path) ==
  LET d == Lookup(path)
  IN  d >= 0 /\ fs[d].kind = "dir" /\ fs[d].fault # "read"

\* what the loop over one entry does (scanner.rs 203-241):
\* "skip", "dir" (buffer the directory) or "file" (push the path)
EntryOutcome(n) ==
  IF fs[n].fault = "entry" THEN "skip"
  ELSE IF ~config.include_hidden /\ is_hidden(PathOf(n)) THEN "skip"
  ELSE IF fs[n].kind = "symlink" /\ ~config.follow_symlinks THEN "skip"
  ELSE IF fs[n].fault = "metadata" THEN "skip"
  ELSE IF fs[n].kind = "dir" THEN "dir"
  ELSE IF fs[n].kind = "file"
       THEN IF file_passes_size_filter(SizeOfNode(n)) THEN "file" ELSE "skip"
  ELSE "skip"

\* the paths one directory adds to file_paths, in listing order
FilesFound(d) ==
  LET es == Entries(d)
      hit(n) == EntryOutcome(n) = "file"
      found == SelectSeq(es, hit)
  IN  [i \in 1..Len(found) |-> PathOf(found[i])]

\* new_directories of one directory, in listing order
DirsFound(d, depth) ==
  LET es == Entries(d)
      hit(n) == EntryOutcome(n) = "dir"
      found == SelectSeq(es, hit)
  IN  [i \in 1..Len(found) |-> [path |-> PathOf(found[i]), depth |-> depth + 1]]

\* a depth check that lets one more level through
DepthLimitOneLevelLate(current_depth) ==
  config.max_depth > 0 /\ current_depth > config.max_depth

\* the depth check of scanner.rs 180
DepthLimitReached(current_depth) ==
  config.max_depth > 0 /\ current_depth >= config.max_depth

\* a push that puts every new directory on the stack twice
PushNewDirectoriesTwice(rest, new_directories) ==
  rest \o Reverse(new_directories) \o Reverse(new_directories)

\* the stack after one directory has been handled
PushNewDirectories(rest, new_directories) == rest \o Reverse(new_directories)

\* the state in which process_files starts on the candidate paths
EnterProcessFiles(paths) == IF paths = <<>> THEN "group" ELSE "spawn"

\* a ceiling test that lets one more pending directory through
CeilingOneTooHigh(rest) == Len(rest) > MAX_PENDING_DIRS + 1

\* the test of scanner.rs 171, made on the stack the pop has left
TooManyPending(rest) == Len(rest) > MAX_PENDING_DIRS

\* a failed read_dir that gives up the directories still pending
ReadErrorDropsPending(rest) == <<>>

\* the stack after fs::read_dir has failed (scanner.rs 191-194): `continue`
AfterReadDirError(rest) == rest

\* one iteration of `while let Some(..) = dir_stack.pop()`
DiscoverStep ==
  /\ pc = "discover"
  /\ dir_stack # <<>>
  /\ LET top  == dir_stack[Len(dir_stack)]
         rest == SubSeq(dir_stack, 1, Len(dir_stack) - 1)
         d    == Lookup(top.path)
     IN  IF TooManyPending(rest)
         THEN \* break: discover_files returns what it has
              /\ dir_stack' = rest
              /\ pc' = EnterProcessFiles(file_paths)
              /\ UNCHANGED <<file_paths, scanned>>
         ELSE IF DepthLimitReached(top.depth)
         THEN /\ dir_stack' = rest
              /\ UNCHANGED <<pc, file_paths, scanned>>
         ELSE IF ~ReadDirOk(top.path)
         THEN /\ dir_stack' = AfterReadDirError(rest)
              /\ scanned' = scanned \cup {top.path}
              /\ UNCHANGED <<pc, file_paths>>
         ELSE /\ scanned' = scanned \cup {top.path}
              /\ file_paths' = file_paths \o FilesFound(d)
              /\ dir_stack' = PushNewDirectories(rest, DirsFound(d, top.depth))
              /\ UNCHANGED pc
  /\ UNCHANGED <<config, fs, batch_start, tasks, permits, file_infos, groups,
                 result, writes, dropped>>

\* dir_stack.pop() returns None: discover_files returns Ok(file_paths)
DiscoverReturn ==
  /\ pc = "discover"
  /\ dir_stack = <<>>
  /\ pc' = EnterProcessFiles(file_paths)
  /\ UNCHANGED <<config, fs, dir_stack, file_paths, scanned, batch_start, tasks,
                 permits, file_infos, groups, result, writes, dropped>>


(***************************************************************************)
(* validate_config (scanner.rs 119-136).                                   *)
(***************************************************************************)
\* a validation that reads max_size = 0 as a limit of 0 bytes
ValidateWithoutUnlimitedMax ==
  IF fs[0].kind = "missing" THEN "PathNotFound"
  ELSE IF config.min_size > config.max_size THEN "InvalidSizeFilter"
  ELSE "Ok"

\* a validation that takes nothing but a directory for the root
ValidateRequiresDirectory ==
  IF fs[0].kind # "dir" THEN "PathNotFound"
  ELSE IF config.max_size > 0 /\ config.min_size > config.max_size
       THEN "InvalidSizeFilter"
  ELSE "Ok"

validate_config ==
  IF fs[0].kind = "missing" THEN "PathNotFound"
  ELSE IF config.max_size > 0 /\ config.min_size > config.max_size
       THEN "InvalidSizeFilter"
  ELSE "Ok"

\* a scan that goes on to the traversal whatever validate_config returns
ValidateGoesOnAfterError ==
  /\ pc = "validate"
  /\ pc' = "discover"
  /\ dir_stack' = <<[path |-> config.directory, depth |-> 0]>>
  /\ UNCHANGED <<config, fs, file_paths, scanned, batch_start, tasks, permits,
                 file_infos, groups, result, writes, dropped>>

\* scan() up to the call of discover_files (scanner.rs 57-72)
Validate ==
  /\ pc = "validate"
  /\ IF validate_config = "Ok"
     THEN /\ pc' = "discover"
          /\ dir_stack' = <<[path |-> config.directory, depth |-> 0]>>
          /\ UNCHANGED result
     ELSE /\ pc' = "done"
          /\ result' = [ok |-> FALSE, error |-> validate_config]
          /\ UNCHANGED dir_stack
  /\ UNCHANGED <<config, fs, file_paths, scanned, batch_start, tasks, permits,
                 file_infos, groups, writes, dropped>>

(***************************************************************************)
(* FileInfo::from_path and calculate_file_hash (lib.rs 289-347).           *)
(***************************************************************************)
RECURSIVE Sha256(_)
\* The digest of a content.  SHA-256 is taken to be free of collisions, as
\* the documentation assumes: the digest numbers the content with nonzero
\* digits, so that different contents have different digests.
Sha256(content) ==
  IF content = <<>> THEN 0
  ELSE (Head(content) + 1) + (Cardinality(Bytes) + 1) * Sha256(Tail(content))

\* Sha256::new()
HasherNew == [acc |-> 0, weight |-> 1]

\* an update that keeps only the bytes of the last call
UpdateForgetsEarlierReads(hasher, bytes) ==
  [acc |-> Sha256(bytes), weight |-> 1]

RECURSIVE HasherUpdate(_, _)
\* hasher.update(&buffer[..bytes_read]): the bytes are appended to what the
\* hasher has taken in
HasherUpdate(hasher, bytes) ==
  IF bytes = <<>> THEN hasher
  ELSE HasherUpdate([acc |-> hasher.acc + (Head(bytes) + 1) * hasher.weight,
                     weight |-> hasher.weight * (Cardinality(Bytes) + 1)],
                    Tail(bytes))

\* hasher.finalize()
HasherFinalize(hasher) == hasher.acc

RECURSIVE Reads(_)
\* what the calls of file.read may return for a file of n bytes before the
\* call that returns 0: positive lengths, none above the buffer's, of sum n
Reads(n) ==
  IF n = 0 THEN {<<>>}
  ELSE UNION {{<<k>> \o r : r \in Reads(n - k)} :
                k \in {j \in 1..n : j <= BUFFER_SIZE}}

RECURSIVE ReadLoop(_, _, _)
\* the loop of calculate_file_hash (lib.rs 337-343)
ReadLoop(hasher, content, reads) ==
  IF reads = <<>> THEN hasher
  ELSE ReadLoop(HasherUpdate(hasher, SubSeq(content, 1, Head(reads))),
                SubSeq(content, Head(reads) + 1, Len(content)),
                Tail(reads))

\* calculate_file_hash on a file of the given content, read in the given
\* pieces
calculate_file_hash(content, reads) ==
  HasherFinalize(ReadLoop(HasherNew, content, reads))

FileInfo(path, size, hash, modified) ==
  [path |-> path, size |-> size, hash |-> hash, modified |-> modified]

\* one hashing task as tokio::spawn creates it (scanner.rs 307)
NewTask(path) ==
  [path |-> path, st |-> "spawned", size |-> 0, modified |-> 0,
   out |-> <<>>]

(***************************************************************************)
(* process_files (scanner.rs 293-345).  tasks holds the tasks of the       *)
(* current batch that have not been awaited; out is <<>> for None and      *)
(* <<file_info>> for Some(file_info).                                      *)
(***************************************************************************)
\* chunks that put every path into one batch
OneBatchOfEverything == Len(file_paths)

\* the last index of the batch that starts at index batch_start
BatchEnd == IF batch_start + BATCH_SIZE - 1 < Len(file_paths)
            THEN batch_start + BATCH_SIZE - 1 ELSE Len(file_paths)

\* the batches awaited so far begin at 1, 1 + BATCH_SIZE, ...; tasks spawned
\* and not yet awaited are the last ones of the batch
Spawned == Len(tasks)

\* tokio::spawn for the next path of the batch
Spawn ==
  /\ pc = "spawn"
  /\ LET k == batch_start + Spawned
     IN  /\ k <= BatchEnd
         /\ tasks' = Append(tasks, NewTask(file_paths[k]))
         /\ pc' = IF k = BatchEnd THEN "await" ELSE "spawn"
  /\ UNCHANGED <<config, fs, dir_stack, file_paths, scanned, batch_start,
                 permits, file_infos, groups, result, writes, dropped>>

\* an acquire that returns though no permit is left
AcquireWithoutWaiting(i) ==
  /\ tasks[i].st = "spawned"
  /\ permits' = IF permits > 0 THEN permits - 1 ELSE 0
  /\ tasks' = [tasks EXCEPT ![i].st = "permit"]
  /\ UNCHANGED <<config, fs, pc, dir_stack, file_paths, scanned, batch_start,
                 file_infos, groups, result, writes, dropped>>

\* semaphore.acquire() returns a permit to task i
Acquire(i) ==
  /\ tasks[i].st = "spawned"
  /\ permits > 0
  /\ permits' = permits - 1
  /\ tasks' = [tasks EXCEPT ![i].st = "permit"]
  /\ UNCHANGED <<config, fs, pc, dir_stack, file_paths, scanned, batch_start,
                 file_infos, groups, result, writes, dropped>>

\* the semaphore hands out its permits in the order of the requests; here the
\* tasks request them in the order they were spawned
AcquireInOrder(i) ==
  /\ tasks[i].st = "spawned"
  /\ permits > 0
  /\ \A j \in 1..(i - 1) : tasks[j].st # "spawned"
  /\ Acquire(i)

\* fs::metadata(path) in from_path: size and modified are read
Metadata(i) ==
  /\ tasks[i].st = "permit"
  /\ LET n == Lookup(tasks[i].path)
     IN  IF n < 0 \/ fs[n].fault = "metadata"
         THEN \* from_path returns Err: the task yields None, the permit drops
              /\ tasks' = [tasks EXCEPT ![i].st = "done", ![i].out = <<>>]
              /\ permits' = permits + 1
         ELSE /\ tasks' = [tasks EXCEPT ![i].st = "meta",
                                        ![i].size = SizeOfNode(n),
                                        ![i].modified = fs[n].mtime]
              /\ UNCHANGED permits
  /\ UNCHANGED <<config, fs, pc, dir_stack, file_paths, scanned, batch_start,
                 file_infos, groups, result, writes, dropped>>

\* a hashing step that keeps the permit when the file cannot be read
HashFileErrorKeepsPermit(i) ==
  /\ tasks[i].st = "meta"
  /\ LET n == Lookup(tasks[i].path)
         t == tasks[i]
     IN  IF n < 0 \/ fs[n].fault = "read"
         THEN /\ tasks' = [tasks EXCEPT ![i].st = "done", ![i].out = <<>>]
              /\ UNCHANGED permits
         ELSE /\ \E reads \in Reads(Len(fs[n].content)) :
                   tasks' = [tasks EXCEPT
                     ![i].st = "done",
                     ![i].out = <<FileInfo(t.path, t.size,
                                           calculate_file_hash(fs[n].content, reads),
                                           t.modified)>>]
              /\ permits' = permits + 1
  /\ UNCHANGED <<config, fs, pc, dir_stack, file_paths, scanned, batch_start,
                 file_infos, groups, result, writes, dropped>>

\* calculate_file_hash(path), the end of the task and the drop of its permit
HashFile(i) ==
  /\ tasks[i].st = "meta"
  /\ LET n == Lookup(tasks[i].path)
         t == tasks[i]
     IN  IF n < 0 \/ fs[n].fault = "read"
         THEN tasks' = [tasks EXCEPT ![i].st = "done", ![i].out = <<>>]
         ELSE \E reads \in Reads(Len(fs[n].content)) :
                tasks' = [tasks EXCEPT
                  ![i].st = "done",
                  ![i].out = <<FileInfo(t.path, t.size,
                                        calculate_file_hash(fs[n].content, reads),
                                        t.modified)>>]
  /\ permits' = permits + 1
  /\ UNCHANGED <<config, fs, pc, dir_stack, file_paths, scanned, batch_start,
                 file_infos, groups, result, writes, dropped>>

\* a panic that takes the permit with it
PanicKeepsPermit(i) ==
  /\ tasks[i].st \in {"permit", "meta"}
  /\ tasks' = [tasks EXCEPT ![i].st = "panicked", ![i].out = <<>>]
  /\ UNCHANGED <<config, fs, pc, dir_stack, file_paths, scanned, batch_start,
                 permits, file_infos, groups, result, writes, dropped>>

\* the task panics inside from_path: tokio ends it with a JoinError, and the
\* permit it holds is dropped as the task unwinds
Panic(i) ==
  /\ tasks[i].st \in {"permit", "meta"}
  /\ tasks' = [tasks EXCEPT ![i].st = "panicked", ![i].out = <<>>]
  /\ permits' = permits + 1
  /\ UNCHANGED <<config, fs, pc, dir_stack, file_paths, scanned, batch_start,
                 file_infos, groups, result, writes, dropped>>

\* an await loop that gives up the records collected when a task gave none
AwaitLosesRecordsOnFailure ==
  /\ pc = "await"
  /\ tasks # <<>>
  /\ Head(tasks).st \in {"done", "panicked"}
  /\ file_infos' = IF Head(tasks).out = <<>> THEN <<>>
                   ELSE file_infos \o Head(tasks).out
  /\ dropped' = IF Head(tasks).out # <<>> THEN dropped
                ELSE Append(dropped, [path |-> Head(tasks).path,
                                      cause |-> Head(tasks).st])
  /\ tasks' = Tail(tasks)
  /\ IF Len(tasks) > 1
     THEN UNCHANGED <<pc, batch_start>>
     ELSE /\ batch_start' = batch_start + BATCH_SIZE
          /\ pc' = IF batch_start + BATCH_SIZE <= Len(file_paths)
                   THEN "spawn" ELSE "group"
  /\ UNCHANGED <<config, fs, dir_stack, file_paths, scanned, permits, groups,
                 result, writes>>

\* an await loop that takes the tasks in the order they complete
AwaitInCompletionOrder ==
  /\ pc = "await"
  /\ tasks # <<>>
  /\ \E i \in DOMAIN tasks :
       /\ tasks[i].st \in {"done", "panicked"}
       /\ file_infos' = file_infos \o tasks[i].out
       /\ dropped' = IF tasks[i].out # <<>> THEN dropped
                     ELSE Append(dropped, [path |-> tasks[i].path,
                                           cause |-> tasks[i].st])
       /\ tasks' = SubSeq(tasks, 1, i - 1) \o SubSeq(tasks, i + 1, Len(tasks))
  /\ IF Len(tasks) > 1
     THEN UNCHANGED <<pc, batch_start>>
     ELSE /\ batch_start' = batch_start + BATCH_SIZE
          /\ pc' = IF batch_start + BATCH_SIZE <= Len(file_paths)
                   THEN "spawn" ELSE "group"
  /\ UNCHANGED <<config, fs, dir_stack, file_paths, scanned, permits, groups,
                 result, writes>>

\* `task.await` on the first task not yet awaited (scanner.rs 335-341):
\* Ok(Some(file_info)) is pushed, Ok(None) and Err(e) give no record
Await ==
  /\ pc = "await"
  /\ tasks # <<>>
  /\ Head(tasks).st \in {"done", "panicked"}
  /\ file_infos' = file_infos \o Head(tasks).out
  /\ dropped' = IF Head(tasks).out # <<>> THEN dropped
                ELSE Append(dropped, [path |-> Head(tasks).path,
                                      cause |-> Head(tasks).st])
  /\ tasks' = Tail(tasks)
  /\ IF Len(tasks) > 1
     THEN UNCHANGED <<pc, batch_start>>
     ELSE /\ batch_start' = batch_start + BATCH_SIZE
          /\ pc' = IF batch_start + BATCH_SIZE <= Len(file_paths)
                   THEN "spawn" ELSE "group"
  /\ UNCHANGED <<config, fs, dir_stack, file_paths, scanned, permits, groups,
                 result, writes>>

\* another process rewrites a file while the scan hashes
Rewrite(n, content) ==
  /\ pc \in {"spawn", "await"}
  /\ writes < MaxWrites
  /\ fs[n].kind = "file"
  /\ content # fs[n].content
  /\ fs' = [fs EXCEPT ![n].content = content, ![n].mtime = fs[n].mtime + 1]
  /\ writes' = writes + 1
  /\ UNCHANGED <<config, pc, dir_stack, file_paths, scanned, batch_start, tasks,
                 permits, file_infos, groups, result, dropped>>


(***************************************************************************)
(* group_duplicates (scanner.rs 348-381).                                  *)
(***************************************************************************)
\* the keys of the HashMap built by scanner.rs 352-356
GroupKeys(infos) == {infos[i].hash : i \in DOMAIN infos}

\* the Vec of one key: its records in insertion order
Bucket(infos, hash) ==
  LET same(f) == f.hash = hash
  IN  SelectSeq(infos, same)

RECURSIVE InsertByModified(_, _)
\* f placed after every element whose key is not greater (a stable insertion)
InsertByModified(sorted, f) ==
  IF sorted = <<>> THEN <<f>>
  ELSE IF Head(sorted).modified <= f.modified
       THEN <<Head(sorted)>> \o InsertByModified(Tail(sorted), f)
  ELSE <<f>> \o sorted

\* the records left in insertion order
Unsorted(files) == files

RECURSIVE SortByModified(_)
\* files.sort_by_key(|f| f.modified): a stable sort, oldest first
SortByModified(files) ==
  IF files = <<>> THEN <<>>
  ELSE InsertByModified(SortByModified(SubSeq(files, 1, Len(files) - 1)),
                        files[Len(files)])

\* the group's size: the first file's size (scanner.rs 364)
GroupSize(files) == IF files = <<>> THEN 0 ELSE files[1].size

\* wasted space that counts every copy, the first one included
WastedSpaceAllCopies(size, count) == IF count > 1 THEN size * count ELSE 0

\* scanner.rs 366-370
WastedSpace(size, count) == IF count > 1 THEN size * (count - 1) ELSE 0

\* the closure mapped over the HashMap (scanner.rs 360-379)
MakeGroup(hash, bucket) ==
  LET files == SortByModified(bucket)
      size  == GroupSize(files)
  IN  [hash |-> hash, size |-> size, files |-> files,
       total_size |-> size * Len(files),
       wasted_space |-> WastedSpace(size, Len(files))]

\* the orders in which the HashMap may hand out its keys
KeyOrders(keys) ==
  {o \in [1..Cardinality(keys) -> keys] : \A i, j \in DOMAIN o : i # j => o[i] # o[j]}

group_duplicates(infos, order) ==
  [i \in DOMAIN order |-> MakeGroup(order[i], Bucket(infos, order[i]))]

\* scan(): Phase 3 (scanner.rs 91)
Group ==
  /\ pc = "group"
  /\ \E order \in KeyOrders(GroupKeys(file_infos)) :
       groups' = group_duplicates(file_infos, order)
  /\ pc' = "aggregate"
  /\ UNCHANGED <<config, fs, dir_stack, file_paths, scanned, batch_start, tasks,
                 permits, file_infos, result, writes, dropped>>

(***************************************************************************)
(* The ScanResult formed by scan (scanner.rs 96-109).                      *)
(***************************************************************************)
\* a filter that keeps every group
KeepAllGroups(gs) == gs

\* .filter(|g| g.files.len() > 1)
RealDuplicates(gs) ==
  LET many(g) == Len(g.files) > 1
  IN  SelectSeq(gs, many)

\* total_files summed over the filtered groups only
TotalFilesOfDuplicates(gs) ==
  SumSeq([i \in DOMAIN RealDuplicates(gs) |-> Len(RealDuplicates(gs)[i].files)])

TotalFiles(gs) == SumSeq([i \in DOMAIN gs |-> Len(gs[i].files)])

TotalDuplicates(gs) ==
  SumSeq([i \in DOMAIN gs |->
            IF Len(gs[i].files) > 1 THEN Len(gs[i].files) - 1 ELSE 0])

\* total_wasted_space summed over total_size instead of wasted_space
TotalOfTotalSize(gs) == SumSeq([i \in DOMAIN gs |-> gs[i].total_size])

TotalWastedSpace(gs) == SumSeq([i \in DOMAIN gs |-> gs[i].wasted_space])

MakeScanResult(gs) ==
  [ok |-> TRUE,
   total_files |-> TotalFiles(gs),
   total_duplicates |-> TotalDuplicates(gs),
   total_wasted_space |-> TotalWastedSpace(gs),
   duplicate_groups |-> RealDuplicates(gs),
   scanned_directory |-> config.directory]

Aggregate ==
  /\ pc = "aggregate"
  /\ result' = MakeScanResult(groups)
  /\ pc' = "done"
  /\ UNCHANGED <<config, fs, dir_stack, file_paths, scanned, batch_start, tasks,
                 permits, file_infos, groups, writes, dropped>>


(***************************************************************************)
(* Initial states.                                                         *)
(***************************************************************************)
Chars == <<"a", "b", "c", "d", "e", "f", "g", "h">>

\* the name of entry i, dotted when the entry is hidden
NameFor(i, hidden) == IF hidden THEN <<".", Chars[i]>> ELSE <<Chars[i]>>

\* entry 0: what config.directory names ("dir", "file" or "missing")
RootEntry(kind) ==
  [parent |-> 0, name |-> <<>>, kind |-> kind, content |-> <<>>,
   mtime |-> 0, fault |-> "none", target |-> "none"]

Entry(i, parent, a) ==
  [parent |-> parent, name |-> NameFor(i, a.hidden), kind |-> a.kind,
   content |-> a.content, mtime |-> a.mtime, fault |-> a.fault,
   target |-> a.target]

RECURSIVE TreesOf(_, _)
\* the trees of n entries below a root directory, each entry listed by a
\* directory created before it, with attributes drawn from Attrs
TreesOf(n, Attrs) ==
  IF n = 0 THEN {[i \in {0} |-> RootEntry("dir")]}
  ELSE UNION {
         {[i \in 0..n |-> IF i < n THEN t[i] ELSE Entry(n, p, a)] :
            p \in {q \in DOMAIN t : t[q].kind = "dir"}, a \in Attrs}
         : t \in TreesOf(n - 1, Attrs)}

TreesUpTo(n, Attrs) == UNION {TreesOf(k, Attrs) : k \in 0..n}

\* FileScanner::new (scanner.rs 32-47): the size of the semaphore
thread_count(threads) == IF threads = 0 THEN NumCpus * 2 ELSE threads

NoResult == [ok |-> FALSE, error |-> "none"]

\* the state FileScanner::new leaves, scan() not yet started
Constructed ==
  /\ pc = "validate"
  /\ dir_stack = <<>>
  /\ file_paths = <<>>
  /\ scanned = {}
  /\ batch_start = 1
  /\ tasks = <<>>
  /\ permits = thread_count(config.threads)
  /\ file_infos = <<>>
  /\ groups = <<>>
  /\ result = NoResult
  /\ writes = 0
  /\ dropped = <<>>

\* entries of the traversal specification: directories and files of one
\* byte, hidden or not, an empty file, and symbolic links to a directory or
\* to a regular file
DiscoverAttrs ==
  {[hidden |-> h, kind |-> "dir", content |-> <<>>, mtime |-> 0,
    fault |-> "none", target |-> "none"] : h \in BOOLEAN}
  \cup {[hidden |-> FALSE, kind |-> "symlink", content |-> <<>>, mtime |-> 0,
         fault |-> "none", target |-> t] : t \in {"dir", "file"}}
  \cup {[hidden |-> h, kind |-> "file", content |-> <<0>>, mtime |-> 0,
         fault |-> "none", target |-> "none"] : h \in BOOLEAN}
  \cup {[hidden |-> FALSE, kind |-> "file", content |-> <<>>, mtime |-> 0,
         fault |-> "none", target |-> "none"]}

DiscoverTrees == TreesUpTo(MaxNodes, DiscoverAttrs)

\* the settings of the traversal specification; exclude_empty is tried
\* where the depth is unlimited and the root's name has no dot
DiscoverConfigs ==
  {c \in [directory : {<<<<"r">>>>, <<<<".", "r">>>>},
          min_size : {0}, max_size : {0},
          include_hidden : BOOLEAN, exclude_empty : BOOLEAN,
          follow_symlinks : BOOLEAN, max_depth : 0..MaxDepthCfg,
          threads : {1}] :
     c.exclude_empty => (c.max_depth = 0 /\ c.directory = <<<<"r">>>>)}

InitDiscover ==
  /\ fs \in DiscoverTrees
  /\ config \in DiscoverConfigs
  /\ Constructed

NextDiscover == Validate \/ DiscoverStep \/ DiscoverReturn

\* the traversal: scan() from its start to the return of discover_files
SpecDiscover == InitDiscover /\ [][NextDiscover]_vars

\* the contents of the files of the end-to-end specification, of sizes 0, 1
\* and 2
ScanContents == {<<>>, <<0>>, <<0, 0>>}

\* entries of the end-to-end specification: files and directories
ScanAttrs ==
  {[hidden |-> FALSE, kind |-> "file", content |-> c, mtime |-> 0,
    fault |-> "none", target |-> "none"] : c \in ScanContents}
  \cup {[hidden |-> FALSE, kind |-> "dir", content |-> <<>>, mtime |-> 0,
         fault |-> "none", target |-> "none"]}

\* a scanned directory holding up to MaxFiles entries, or a root that is a
\* regular file, or a root that does not exist
ScanTrees ==
  TreesUpTo(MaxFiles, ScanAttrs)
  \cup {[i \in {0} |-> RootEntry(k)] : k \in {"file", "missing"}}

Init ==
  /\ fs \in ScanTrees
  /\ config \in [directory : {<<<<"r">>>>},
                 min_size : 0..MaxSizeCfg, max_size : 0..MaxSizeCfg,
                 include_hidden : {FALSE}, exclude_empty : BOOLEAN,
                 follow_symlinks : {FALSE}, max_depth : {0},
                 threads : ThreadCounts]
  /\ Constructed

Next ==
  \/ Validate
  \/ DiscoverStep
  \/ DiscoverReturn
  \/ Spawn
  \/ \E i \in DOMAIN tasks : Acquire(i) \/ Metadata(i) \/ HashFile(i)
  \/ Await
  \/ \E n \in Nodes \ {0}, c \in ScanContents : Rewrite(n, c)
  \/ Group
  \/ Aggregate

\* one scan from FileScanner::new to the return of scan()
Spec == Init /\ [][Next]_vars

(***************************************************************************)
(* Grouping on its own: scan() from the return of process_files on.  The   *)
(* records are any sequence process_files can return: one record per path, *)
(* with any digest, size and modified-time (a file rewritten between       *)
(* fs::metadata and the hashing yields a size that is not its content's).  *)
(* The file system is not read any more at this point.                     *)
(***************************************************************************)
RecHashes == {Sha256(<<0>>), Sha256(<<1>>)}

RecPath(i) == <<<<"r">>, <<Chars[i]>>>>

RecAttrs == (0..MaxRecSize) \X RecHashes \X (0..MaxRecTime)

InitGroup ==
  /\ \E n \in 0..MaxRecords : \E a \in [1..n -> RecAttrs] :
       file_infos = [i \in 1..n |-> FileInfo(RecPath(i), a[i][1], a[i][2], a[i][3])]
  /\ config = [directory |-> <<<<"r">>>>, min_size |-> 0, max_size |-> 0,
               include_hidden |-> FALSE, exclude_empty |-> FALSE,
               follow_symlinks |-> FALSE, max_depth |-> 0, threads |-> 1]
  /\ fs = [i \in {0} |-> RootEntry("dir")]
  /\ pc = "group"
  /\ dir_stack = <<>>
  /\ file_paths = [i \in DOMAIN file_infos |-> file_infos[i].path]
  /\ scanned = {config.directory}
  /\ batch_start = 1 + BATCH_SIZE
  /\ tasks = <<>>
  /\ permits = thread_count(config.threads)
  /\ groups = <<>>
  /\ result = NoResult
  /\ writes = 0
  /\ dropped = <<>>

NextGroup == Group \/ Aggregate

SpecGroup == InitGroup /\ [][NextGroup]_vars

(***************************************************************************)
(* Hashing on its own: process_files called on any list of paths, within a *)
(* directory that holds two readable files of the same content and a file  *)
(* that cannot be opened; one path names no file.  A path may occur more   *)
(* than once in the list.                                                  *)
(***************************************************************************)
HashFs ==
  [i \in 0..3 |->
     IF i = 0 THEN RootEntry("dir")
     ELSE Entry(i, 0, [hidden |-> FALSE, kind |-> "file", content |-> <<0, 1>>,
                       mtime |-> 0,
                       fault |-> IF i = 3 THEN "read" ELSE "none",
                       target |-> "none"])]

\* the paths of the three files, and a path that names nothing
HashPaths == {<<<<"r">>, <<Chars[i]>>>> : i \in 1..4}

InitHash ==
  /\ fs = HashFs
  /\ config \in [directory : {<<<<"r">>>>}, min_size : {0}, max_size : {0},
                 include_hidden : {FALSE}, exclude_empty : {FALSE},
                 follow_symlinks : {FALSE}, max_depth : {0},
                 threads : ThreadCounts]
  /\ file_paths \in SeqsUpTo(HashPaths, MaxPaths)
  /\ pc = EnterProcessFiles(file_paths)
  /\ dir_stack = <<>>
  /\ scanned = {config.directory}
  /\ batch_start = 1
  /\ tasks = <<>>
  /\ permits = thread_count(config.threads)
  /\ file_infos = <<>>
  /\ groups = <<>>
  /\ result = NoResult
  /\ writes = 0
  /\ dropped = <<>>

NextHash ==
  \/ Spawn
  \/ \E i \in DOMAIN tasks : Acquire(i) \/ Metadata(i) \/ HashFile(i) \/ Panic(i)
  \/ Await
  \/ Group
  \/ Aggregate

SpecHash == InitHash /\ [][NextHash]_vars

(***************************************************************************)
(* The scan among failures: directories that cannot be read, entries whose *)
(* metadata cannot be read, files that cannot be opened, tasks that panic, *)
(* a root that does not exist.  The runtime keeps running scan() and every *)
(* task that can take a step; a panic is no step the runtime owes.         *)
(***************************************************************************)
LiveAttrs ==
  {[hidden |-> FALSE, kind |-> "dir", content |-> <<>>, mtime |-> 0, fault |-> f,
    target |-> "none"] : f \in {"none", "read"}}
  \cup {[hidden |-> FALSE, kind |-> "file", content |-> <<0>>, mtime |-> 0,
         fault |-> f, target |-> "none"] :
       f \in {"none", "entry", "metadata", "read"}}

\* entry 0 for a directory that exists and cannot be read
UnreadableRoot == [RootEntry("dir") EXCEPT !.fault = "read"]

LiveTrees ==
  TreesUpTo(MaxLiveNodes, LiveAttrs)
  \cup {[i \in {0} |-> RootEntry(k)] : k \in {"file", "missing"}}
  \cup {[i \in {0} |-> UnreadableRoot]}

InitLive ==
  /\ fs \in LiveTrees
  /\ config \in [directory : {<<<<"r">>>>}, min_size : {0, 2}, max_size : {0, 1},
                 include_hidden : {FALSE}, exclude_empty : {FALSE},
                 follow_symlinks : {FALSE}, max_depth : {0},
                 threads : ThreadCounts]
  /\ Constructed

\* the steps of scan() itself
ScanStep ==
  \/ Validate
  \/ DiscoverStep
  \/ DiscoverReturn
  \/ Spawn
  \/ Await
  \/ Group
  \/ Aggregate

\* the steps of the spawned tasks
TaskStep == \E i \in DOMAIN tasks : Acquire(i) \/ Metadata(i) \/ HashFile(i)

NextLive ==
  \/ ScanStep
  \/ TaskStep
  \/ \E i \in DOMAIN tasks : Panic(i)

SpecLive ==
  InitLive /\ [][NextLive]_vars /\ WF_vars(ScanStep) /\ WF_vars(TaskStep)

(***************************************************************************)
(* Batching: process_files called on more paths than one batch holds, the  *)
(* files of one directory.  With these many tasks the permits are taken in *)
(* the order of spawning and the semaphore has one permit, so that the     *)
(* tasks run one after another while the spawning goes on beside them.     *)
(***************************************************************************)
Digits == <<"0", "1", "2", "3", "4", "5", "6", "7", "8", "9">>

\* the name of the i-th file: "f" and the three digits of i
BatchName(i) ==
  <<"f", Digits[(i \div 100) + 1], Digits[((i \div 10) % 10) + 1],
    Digits[(i % 10) + 1]>>

\* a directory of n readable files
BatchFs(n) ==
  [i \in 0..n |->
     IF i = 0 THEN RootEntry("dir")
     ELSE [parent |-> 0, name |-> BatchName(i), kind |-> "file",
           content |-> <<0>>, mtime |-> 0, fault |-> "none", target |-> "none"]]

InitBatch ==
  /\ \E n \in BATCH_SIZE..(BATCH_SIZE + MaxOver) : fs = BatchFs(n)
  /\ config = [directory |-> <<<<"r">>>>, min_size |-> 0, max_size |-> 0,
               include_hidden |-> FALSE, exclude_empty |-> FALSE,
               follow_symlinks |-> FALSE, max_depth |-> 0, threads |-> 1]
  /\ file_paths = [k \in 1..(Cardinality(DOMAIN fs) - 1) |-> PathOf(k)]
  /\ pc = "spawn"
  /\ dir_stack = <<>>
  /\ scanned = {config.directory}
  /\ batch_start = 1
  /\ tasks = <<>>
  /\ permits = thread_count(config.threads)
  /\ file_infos = <<>>
  /\ groups = <<>>
  /\ result = NoResult
  /\ writes = 0
  /\ dropped = <<>>

NextBatch ==
  \/ Spawn
  \/ \E i \in DOMAIN tasks :
       AcquireInOrder(i) \/ Metadata(i) \/ HashFile(i)
  \/ Await

SpecBatch == InitBatch /\ [][NextBatch]_vars

(***************************************************************************)
(* Fan-out: discover_files on a directory that lists one regular file and  *)
(* then n empty subdirectories, for a few subdirectories and for more than *)
(* MAX_PENDING_DIRS of them.                                               *)
(***************************************************************************)
\* the name of the i-th entry: "d" and the five digits of i
FanName(i) ==
  <<"d", Digits[(i \div 10000) + 1], Digits[((i \div 1000) % 10) + 1],
    Digits[((i \div 100) % 10) + 1], Digits[((i \div 10) % 10) + 1],
    Digits[(i % 10) + 1]>>

\* a directory of one file of one byte and n empty directories
FanFs(n) ==
  [i \in 0..(n + 1) |->
     IF i = 0 THEN RootEntry("dir")
     ELSE [parent |-> 0, name |-> FanName(i),
           kind |-> IF i = 1 THEN "file" ELSE "dir",
           content |-> IF i = 1 THEN <<0>> ELSE <<>>,
           mtime |-> 0, fault |-> "none", target |-> "none"]]

\* the numbers of subdirectories: 0..MaxFewDirs, and MaxPendingOver numbers
\* from MAX_PENDING_DIRS + 2 on, the least that leaves more than
\* MAX_PENDING_DIRS directories pending after a pop
FanOuts ==
  (0..MaxFewDirs)
    \cup ((MAX_PENDING_DIRS + 2)..(MAX_PENDING_DIRS + 1 + MaxPendingOver))

InitFan ==
  /\ \E n \in FanOuts : fs = FanFs(n)
  /\ \E h \in BOOLEAN, e \in BOOLEAN, md \in 0..MaxDepthCfg :
       config = [directory |-> <<<<"r">>>>, min_size |-> 0, max_size |-> 0,
                 include_hidden |-> h, exclude_empty |-> e,
                 follow_symlinks |-> FALSE, max_depth |-> md, threads |-> 1]
  /\ Constructed

NextFan == Validate \/ DiscoverStep \/ DiscoverReturn

SpecFan == InitFan /\ [][NextFan]_vars

(***************************************************************************)
(* Properties of process_files.                                            *)
(***************************************************************************)
\* the size of the semaphore
SemaphoreSize == thread_count(config.threads)

\* the tasks that hold a permit: they are inside FileInfo::from_path
Holders == {i \in DOMAIN tasks : tasks[i].st \in {"permit", "meta"}}

\* C12: at every moment at most N tasks, N the size of the semaphore, hold
\* a permit, the permits out and the permits left adding up to N; and a task
\* that holds no permit takes no step but the acquiring of a permit that is
\* left, so that no file I/O is done without a permit.
C12_AtMostNTasksInsideFromPath ==
  /\ [](/\ Cardinality(Holders) <= SemaphoreSize
        /\ permits >= 0
        /\ permits + Cardinality(Holders) = SemaphoreSize
        /\ \A i \in DOMAIN tasks :
             tasks[i].st = "spawned" =>
               tasks[i].out = <<>> /\ tasks[i].size = 0 /\ tasks[i].modified = 0)
  /\ [][Len(tasks') = Len(tasks) =>
          \A i \in DOMAIN tasks :
            tasks'[i] # tasks[i] =>
              \/ i \in Holders
              \/ /\ tasks[i].st = "spawned" /\ tasks'[i].st = "permit"
                 /\ permits > 0 /\ permits' = permits - 1]_vars

\* every permit is out while a task does file I/O and another task waits
C12_Witness ==
  /\ Cardinality(Holders) = SemaphoreSize
  /\ permits = 0
  /\ \E i, j \in DOMAIN tasks : tasks[i].st = "meta" /\ tasks[j].st = "spawned"

\* the tasks spawned that have not completed
Unfinished == {i \in DOMAIN tasks : tasks[i].st \notin {"done", "panicked"}}

\* the number of tasks awaited so far
Awaited == Len(file_infos) + Len(dropped)

\* C13: the paths are handled in consecutive batches of at most 100: the
\* tasks that exist are tasks of the current batch, every task of the
\* batches before it has completed and been awaited, and so the tasks
\* spawned and not finished are never more than 100.
C13_BatchesOfAtMostHundred ==
  /\ Len(tasks) <= BATCH_SIZE
  /\ Cardinality(Unfinished) <= BATCH_SIZE
  /\ batch_start % BATCH_SIZE = 1
  /\ tasks # <<>> =>
       /\ Awaited >= batch_start - 1
       /\ Awaited + Len(tasks) <= batch_start + BATCH_SIZE - 1
       /\ \A i \in DOMAIN tasks :
            /\ Awaited + i \in batch_start..(batch_start + BATCH_SIZE - 1)
            /\ Awaited + i <= Len(file_paths)
            /\ tasks[i].path = file_paths[Awaited + i]
  /\ pc = "spawn" => Awaited = batch_start - 1

\* the first batch of 100 tasks has been awaited whole and a task of the
\* second batch runs
C13_Witness ==
  /\ batch_start = BATCH_SIZE + 1
  /\ Awaited = BATCH_SIZE
  /\ \E i \in DOMAIN tasks : tasks[i].st = "meta"
  /\ tasks[1].path = file_paths[BATCH_SIZE + 1]

\* process_files has returned
ProcessFilesReturned == pc \in {"group", "aggregate", "done"} /\ file_paths # <<>>

RecordsOf(p) == {i \in DOMAIN file_infos : file_infos[i].path = p}

OccurrencesOf(p) == {k \in DOMAIN file_paths : file_paths[k] = p}

DroppedOf(p) == {k \in DOMAIN dropped : dropped[k].path = p}

\* p names a regular file that can be opened and read
CanBeHashed(p) ==
  /\ Lookup(p) >= 0
  /\ fs[Lookup(p)].kind = "file"
  /\ fs[Lookup(p)].fault = "none"

\* C14: when the hashing of a path fails (from_path returns an error or the
\* task panics) that path alone gives no record: process_files returns Ok,
\* a path that cannot be hashed has no record, and a path that can be opened
\* and read has one record for each of its tasks that did not panic.
C14_FailedPathAloneIsAbsent ==
  /\ pc = "done" => result.ok
  /\ ProcessFilesReturned =>
       \A p \in Range(file_paths) :
         /\ Cardinality(RecordsOf(p)) + Cardinality(DroppedOf(p))
              = Cardinality(OccurrencesOf(p))
         /\ ~CanBeHashed(p) => RecordsOf(p) = {}
         /\ CanBeHashed(p) =>
              \A k \in DroppedOf(p) : dropped[k].cause = "panicked"

\* process_files has returned a record though a task before it returned an
\* error and another one panicked
C14_Witness ==
  /\ ProcessFilesReturned
  /\ \E k \in DOMAIN dropped : dropped[k].cause = "done"
  /\ \E k \in DOMAIN dropped : dropped[k].cause = "panicked"
  /\ \E k \in DOMAIN file_paths :
       /\ k > 1
       /\ ~CanBeHashed(file_paths[1])
       /\ RecordsOf(file_paths[k]) # {}

\* the records process_files has collected and those of the tasks that wait
\* to be awaited
RecordsMade ==
  Range(file_infos) \cup UNION {Range(tasks[i].out) : i \in DOMAIN tasks}

\* C19: from_path called twice on a file that is not modified returns the
\* same hash, the digest of the file's content however the reads cut it;
\* the FileInfo carries the path given and the file's size in bytes.
C19_HashingIsDeterministic ==
  /\ \A r \in RecordsMade :
       /\ r.path \in Range(file_paths)
       /\ Lookup(r.path) >= 0
       /\ r.size = Len(fs[Lookup(r.path)].content)
       /\ r.hash = Sha256(fs[Lookup(r.path)].content)
  /\ \A i \in DOMAIN tasks : \A r \in Range(tasks[i].out) : r.path = tasks[i].path
  /\ \A q, r \in RecordsMade : q.path = r.path => q.hash = r.hash

\* from_path has returned twice for one path, a file of more than one byte
C19_Witness ==
  \E i, j \in DOMAIN file_infos :
    /\ i # j
    /\ file_infos[i].path = file_infos[j].path
    /\ file_infos[i].size > 1
    /\ file_infos[i].hash = file_infos[j].hash

\* scan() has returned, a fatal error or a ScanResult, and has left nothing
\* behind: no directory pending, no task, no permit out
Terminated ==
  /\ pc = "done"
  /\ result.ok \/ result.error \in {"PathNotFound", "InvalidSizeFilter"}
  /\ dir_stack = <<>>
  /\ tasks = <<>>
  /\ permits = SemaphoreSize

\* C16: every scan over a finite tree ends, with a fatal error or with a
\* ScanResult, the stack of the traversal empty, every task completed and
\* awaited and every permit back, whatever files or directories fail.
C16_ScanTerminates == <>[]Terminated

\* a scan has ended with a ScanResult though a directory could not be read
\* and the hashing of a file failed
C16_Witness ==
  /\ Terminated
  /\ result.ok
  /\ dropped # <<>>
  /\ \E n \in Nodes \ {0} :
       fs[n].kind = "dir" /\ fs[n].fault = "read" /\ PathOf(n) \in scanned

(***************************************************************************)
(* Properties of the result of scan().                                     *)
(***************************************************************************)
ScanOk == pc = "done" /\ result.ok

\* the number of records that the reported groups hold
ReportedMembers == SumSeq([i \in DOMAIN result.duplicate_groups |->
                             Len(result.duplicate_groups[i].files)])

\* the digests carried by exactly one record
UniqueDigests ==
  {h \in GroupKeys(file_infos) : Len(Bucket(file_infos, h)) = 1}

\* C1 as claimed: total_files is the number of files in the reported groups
\* (those of two members or more), files of a unique digest not counted.
C1_TotalFilesOfReportedGroups ==
  ScanOk => result.total_files = ReportedMembers

\* C1 as amended: total_files is the number of all successfully hashed
\* files, the files whose digest is unique in the scan included.
C1_TotalFilesCountsEveryRecord ==
  ScanOk => result.total_files = Len(file_infos)

\* a scan has ended with a file of a unique digest beside a reported group
C1_Witness ==
  /\ ScanOk
  /\ UniqueDigests # {}
  /\ result.duplicate_groups # <<>>
  /\ result.total_files > ReportedMembers

\* C2: every reported group has at least two members, and a digest carried
\* by exactly one hashed file is the digest of no reported group.
C2_ReportedGroupsHaveTwoMembers ==
  ScanOk =>
    \A i \in DOMAIN result.duplicate_groups :
      /\ Len(result.duplicate_groups[i].files) >= 2
      /\ result.duplicate_groups[i].hash \notin UniqueDigests

\* a scan has ended that dropped a unique digest and reported a group
C2_Witness ==
  /\ ScanOk
  /\ UniqueDigests # {}
  /\ Len(groups) > Len(result.duplicate_groups)
  /\ result.duplicate_groups # <<>>

\* group_duplicates has returned
Grouped == pc \in {"aggregate", "done"} /\ (pc = "done" => result.ok)

\* C4: a group of size s with n members has total_size = s * n, and
\* wasted_space = s * (n - 1) when n > 1 and 0 when n = 1.
C4_GroupArithmetic ==
  Grouped =>
    \A i \in DOMAIN groups :
      LET g == groups[i]
          n == Len(g.files)
      IN  /\ g.total_size = g.size * n
          /\ n > 1 => g.wasted_space = g.size * (n - 1)
          /\ n = 1 => g.wasted_space = 0

\* group_duplicates has built a group of several files of a size above 0
\* and a group of one file of a size above 0
C4_Witness ==
  /\ Grouped
  /\ \E i, j \in DOMAIN groups :
       /\ Len(groups[i].files) > 1 /\ groups[i].size > 0
       /\ Len(groups[j].files) = 1 /\ groups[j].size > 0

\* C5: total_duplicates is the sum of (member_count - 1) and
\* total_wasted_space the sum of wasted_space over the reported groups,
\* though the code sums over the groups before the filter.
C5_TotalsOverReportedGroups ==
  ScanOk =>
    LET dg == result.duplicate_groups
    IN  /\ result.total_duplicates = SumSeq([i \in DOMAIN dg |-> Len(dg[i].files) - 1])
        /\ result.total_wasted_space = SumSeq([i \in DOMAIN dg |-> dg[i].wasted_space])

\* a scan has ended that summed over a group the filter dropped, whose file
\* is not empty, and over a reported group
C5_Witness ==
  /\ ScanOk
  /\ result.duplicate_groups # <<>>
  /\ result.total_wasted_space > 0
  /\ \E i \in DOMAIN groups : Len(groups[i].files) = 1 /\ groups[i].size > 0

\* C6: in every group the members are in ascending order of modified-time,
\* so the first member is the oldest, whatever the insertion order.
C6_MembersOldestFirst ==
  Grouped =>
    \A i \in DOMAIN groups :
      LET files == groups[i].files
      IN  /\ \A a, b \in DOMAIN files : a < b => files[a].modified <= files[b].modified
          /\ \A a \in DOMAIN files : files[1].modified <= files[a].modified

\* a group has been built from records inserted newest first
C6_Witness ==
  /\ Grouped
  /\ \E a, b \in DOMAIN file_infos :
       /\ a < b
       /\ file_infos[a].hash = file_infos[b].hash
       /\ file_infos[a].modified > file_infos[b].modified
       /\ \E i \in DOMAIN groups : groups[i].files[1] = file_infos[b]

(***************************************************************************)
(* Properties of the whole scan.                                           *)
(***************************************************************************)
\* the records of the files whose hashed content was c
RecordsOfContent(c) ==
  {i \in DOMAIN file_infos : file_infos[i].hash = Sha256(c)}

\* C3 as claimed: two or more hashed files of identical content (and so of
\* identical size) are all members of one reported group, whose size field
\* is their common size.
C3_SameContentOneGroupOfThatSize ==
  ScanOk =>
    \A c \in ScanContents :
      Cardinality(RecordsOfContent(c)) >= 2 =>
        \E i \in DOMAIN result.duplicate_groups :
          LET g == result.duplicate_groups[i]
          IN  /\ \A r \in RecordsOfContent(c) : file_infos[r] \in Range(g.files)
              /\ g.size = Len(c)

\* the orders in which a list of records can be passed on
Orderings(infos) ==
  {[i \in DOMAIN infos |-> infos[f[i]]] :
     f \in {g \in [DOMAIN infos -> DOMAIN infos] :
              \A i, j \in DOMAIN infos : i # j => g[i] # g[j]}}

\* what a list of groups says of the files: who shares a group, and each
\* group's size, total_size and wasted_space
GroupingOf(gs) ==
  {[members |-> {gs[i].files[k].path : k \in DOMAIN gs[i].files},
    size |-> gs[i].size, total_size |-> gs[i].total_size,
    wasted_space |-> gs[i].wasted_space] : i \in DOMAIN gs}

\* the records of the candidate paths when every file is hashed as the
\* traversal saw it
RecordsOfCandidates ==
  [k \in DOMAIN file_paths |->
     LET n == Lookup(file_paths[k])
     IN  FileInfo(file_paths[k], SizeOfNode(n), Sha256(fs[n].content), fs[n].mtime)]

\* C15 as claimed: the grouping of the ScanResult is the same for every
\* completion order of the hashing tasks (the records of unmodified files
\* are those of the candidate paths, in their order, however the tasks
\* interleave) and for every order in which the records are passed to
\* group_duplicates.
C15_GroupingIndependentOfOrder ==
  ScanOk =>
    /\ writes = 0 => file_infos = RecordsOfCandidates
    /\ \A infos \in Orderings(file_infos) :
         \A order \in KeyOrders(GroupKeys(infos)) :
           GroupingOf(RealDuplicates(group_duplicates(infos, order)))
             = GroupingOf(result.duplicate_groups)

\* discover_files has returned and no file has been rewritten since, so
\* that fs is the file system the traversal saw
Discovered ==
  /\ pc \notin {"validate", "discover"}
  /\ pc = "done" => result.ok
  /\ writes = 0

Candidates == Range(file_paths)

FileNodes == {n \in Nodes \ {0} : fs[n].kind = "file"}

\* the bounds of min_size and of a max_size above 0
BelowMin(size) == size < config.min_size
AboveMax(size) == config.max_size > 0 /\ size > config.max_size

\* the paths of the members of the reported groups
MemberPaths ==
  UNION {{result.duplicate_groups[i].files[k].path :
            k \in DOMAIN result.duplicate_groups[i].files}
         : i \in DOMAIN result.duplicate_groups}

\* n is a regular file of a directory the traversal has read, and its entry
\* comes to the size filter
ReachedFile(n) ==
  /\ n \in FileNodes
  /\ fs[n].fault = "none"
  /\ PathOf(fs[n].parent) \in scanned
  /\ ReadDirOk(PathOf(fs[n].parent))
  /\ config.include_hidden \/ ~is_hidden(PathOf(n))

\* C7: a file whose size at discovery is below min_size, or above a
\* max_size greater than 0, is no candidate and so a member of no reported
\* group (the members are candidates, and the candidates are those of the
\* traversal); a file whose size is min_size or max_size is not excluded
\* by these bounds.
C7_SizeBoundsKeepFilesOut ==
  /\ (pc # "validate" /\ writes = 0) =>
        \A n \in FileNodes :
          (BelowMin(SizeOfNode(n)) \/ AboveMax(SizeOfNode(n)))
            => PathOf(n) \notin Candidates
  /\ ScanOk => MemberPaths \subseteq Candidates
  /\ Discovered =>
        \A n \in FileNodes :
          /\ ReachedFile(n)
          /\ SizeOfNode(n) = config.min_size
               \/ (config.max_size > 0 /\ SizeOfNode(n) = config.max_size)
          /\ ~(config.exclude_empty /\ SizeOfNode(n) = 0)
          => PathOf(n) \in Candidates

\* a scan has ended that kept a file out for its size and hashed a file
\* whose size is both min_size and max_size
C7_Witness ==
  /\ ScanOk
  /\ config.min_size > 0
  /\ config.min_size = config.max_size
  /\ \E n, m \in FileNodes :
       /\ SizeOfNode(n) = config.min_size
       /\ PathOf(n) \in {file_infos[i].path : i \in DOMAIN file_infos}
       /\ BelowMin(SizeOfNode(m)) \/ AboveMax(SizeOfNode(m))
       /\ PathOf(m) \notin Candidates

\* C8 as claimed: a zero-byte regular file the traversal reaches is no
\* candidate when exclude_empty is set and is a candidate when it is not.
C8_EmptyFileFollowsExcludeEmpty ==
  Discovered =>
    \A n \in FileNodes :
      (ReachedFile(n) /\ SizeOfNode(n) = 0) =>
        (PathOf(n) \in Candidates <=> ~config.exclude_empty)

\* C8 as amended: a zero-byte regular file the traversal reaches is no
\* candidate when exclude_empty is set, and is a candidate when exclude_empty
\* is not set and min_size is 0.
C8_EmptyFileFollowsExcludeEmptyAndMinSize ==
  Discovered =>
    \A n \in FileNodes :
      (ReachedFile(n) /\ SizeOfNode(n) = 0) =>
        /\ config.exclude_empty => PathOf(n) \notin Candidates
        /\ (~config.exclude_empty /\ config.min_size = 0) => PathOf(n) \in Candidates

\* the traversal has returned an empty file of a subdirectory as a candidate
C8_Witness ==
  /\ Discovered
  /\ ~config.exclude_empty
  /\ \E n \in FileNodes :
       /\ SizeOfNode(n) = 0
       /\ fs[n].parent # 0
       /\ ReachedFile(n)
       /\ PathOf(n) \in Candidates

\* scan() has returned the fatal error e
Failed(e) == pc = "done" /\ ~result.ok /\ result.error = e

\* validate_config has returned Ok: scan() went on, or has ended with a result
Validated == pc # "validate" /\ (pc = "done" => result.ok)

\* C11: scan fails with PathNotFound when the root does not exist, and with
\* InvalidSizeFilter when the root exists, max_size > 0 and min_size >
\* max_size; in every other case validation succeeds, so for any min_size
\* when max_size = 0 and when min_size = max_size.
C11_ValidationOutcome ==
  pc # "validate" =>
    /\ fs[0].kind = "missing" => Failed("PathNotFound")
    /\ (fs[0].kind # "missing" /\ config.max_size > 0
          /\ config.min_size > config.max_size) => Failed("InvalidSizeFilter")
    /\ (fs[0].kind # "missing"
          /\ ~(config.max_size > 0 /\ config.min_size > config.max_size)) => Validated
    /\ (fs[0].kind # "missing" /\ config.max_size = 0) => Validated
    /\ (fs[0].kind # "missing" /\ config.min_size = config.max_size) => Validated

\* a scan has gone past validation with max_size = 0 and a min_size above it
C11_Witness ==
  /\ Validated
  /\ config.max_size = 0
  /\ config.min_size > 0
  /\ pc = "done"

\* the phase scan() is in: Validate, Discover, Hash, Group, Aggregate, Done
PhaseOf(p) ==
  CASE p = "validate" -> 1
    [] p = "discover" -> 2
    [] p \in {"spawn", "await"} -> 3
    [] p = "group" -> 4
    [] p = "aggregate" -> 5
    [] p = "done" -> 6

\* C17: the phases run in the order Validate, Discover, Hash, Group,
\* Aggregate and do not overlap: no task exists and nothing is hashed
\* before discover_files has returned, the path list does not change once
\* it has, grouping starts when every task has been awaited and every permit
\* is back, and when validation fails no directory is read and no file is
\* hashed.
C17_PhasesInOrder ==
  /\ [](/\ PhaseOf(pc) = 1 =>
             scanned = {} /\ file_paths = <<>> /\ dir_stack = <<>>
        /\ PhaseOf(pc) < 3 =>
             /\ tasks = <<>> /\ file_infos = <<>> /\ dropped = <<>>
             /\ permits = SemaphoreSize
        /\ PhaseOf(pc) > 3 => tasks = <<>> /\ permits = SemaphoreSize
        /\ (PhaseOf(pc) > 3 /\ (pc = "done" => result.ok)) =>
             Awaited = Len(file_paths) /\ dir_stack = <<>>
        /\ PhaseOf(pc) < 5 => groups = <<>>
        /\ PhaseOf(pc) < 6 => result = NoResult
        /\ (validate_config # "Ok" /\ pc # "validate") =>
             /\ pc = "done" /\ ~result.ok
             /\ scanned = {} /\ file_paths = <<>> /\ tasks = <<>>
             /\ file_infos = <<>> /\ dropped = <<>> /\ groups = <<>>)
  /\ [][/\ PhaseOf(pc') >= PhaseOf(pc)
        /\ PhaseOf(pc) > 2 =>
             file_paths' = file_paths /\ scanned' = scanned
        /\ PhaseOf(pc) > 3 => file_infos' = file_infos /\ dropped' = dropped
        /\ PhaseOf(pc) > 4 => groups' = groups]_vars

\* a scan has gone through every phase and has reported a group
C17_Witness ==
  /\ ScanOk
  /\ Len(file_infos) > 1
  /\ result.duplicate_groups # <<>>

(***************************************************************************)
(* Properties of the traversal.                                            *)
(***************************************************************************)
\* the components of a path below the scanned directory
Below(path) == SubSeq(path, Len(config.directory) + 1, Len(path))

HasHiddenComponent(path) ==
  \E k \in DOMAIN Below(path) : Below(path)[k] # <<>> /\ Head(Below(path)[k]) = "."

\* n is a regular file that every rule but the hidden-name rule and the
\* depth rule lets through: its entry and its directories can be read, the
\* directories above it are directories, and its size passes the filter
Reachable(n) ==
  /\ n \in FileNodes
  /\ fs[n].fault = "none"
  /\ file_passes_size_filter(SizeOfNode(n))
  /\ fs[0].kind = "dir" /\ fs[0].fault = "none"
  /\ \A a \in Ancestors(n) \ {n} : fs[a].kind = "dir" /\ fs[a].fault = "none"

WithinDepth(n) == config.max_depth = 0 \/ DepthOf(n) <= config.max_depth

\* discover_files has returned
Traversed == pc \notin {"validate", "discover"} /\ (pc = "done" => result.ok)

C10_NoFileBelowMaxDepth ==
  /\ config.max_depth > 0 =>
       \A p \in Candidates : Len(Below(p)) <= config.max_depth
  /\ (config.max_depth = 0 /\ Traversed) =>
       \A n \in FileNodes :
         (Reachable(n) /\ (config.include_hidden \/ ~HasHiddenComponent(PathOf(n))))
           => PathOf(n) \in Candidates

\* the traversal has ended with a file at depth max_depth returned and a
\* deeper file, which no other rule keeps out, not returned
C10_Witness ==
  /\ Traversed
  /\ config.max_depth > 0
  /\ \E n, m \in FileNodes :
       /\ DepthOf(n) = config.max_depth
       /\ PathOf(n) \in Candidates
       /\ Reachable(m)
       /\ config.include_hidden \/ ~HasHiddenComponent(PathOf(m))
       /\ DepthOf(m) > config.max_depth
       /\ PathOf(m) \notin Candidates

SymlinkNodes == {n \in Nodes \ {0} : fs[n].kind = "symlink"}

\* the entry n has come to the symlink check: its directory has been read
\* and the hidden-name rule has let it through
ReachedEntry(n) ==
  /\ PathOf(fs[n].parent) \in scanned
  /\ ReadDirOk(PathOf(fs[n].parent))
  /\ config.include_hidden \/ ~is_hidden(PathOf(n))

\* C18 as claimed: with follow_symlinks false every symlink entry is
\* skipped; with follow_symlinks true a symlink to a directory is descended
\* into (within the depth limit) and a symlink to a regular file is returned
\* as a candidate (the size filter letting every size through).
C18_SymlinksFollowedWhenAsked ==
  /\ ~config.follow_symlinks =>
       \A n \in SymlinkNodes :
         /\ PathOf(n) \notin Candidates
         /\ PathOf(n) \notin scanned
         /\ \A k \in DOMAIN dir_stack : dir_stack[k].path # PathOf(n)
  /\ (config.follow_symlinks /\ Traversed) =>
       \A n \in SymlinkNodes :
         ReachedEntry(n) =>
           /\ (fs[n].target = "file" /\ ~config.exclude_empty)
                => PathOf(n) \in Candidates
           /\ (fs[n].target = "dir" /\ ~DepthLimitReached(DepthOf(n)))
                => PathOf(n) \in scanned

\* the regular files the policy lets through when the depth is unlimited
FilesOfPolicy ==
  {n \in FileNodes :
     /\ Reachable(n)
     /\ config.include_hidden \/ ~HasHiddenComponent(PathOf(n))}

DiscoverReturned == pc \in {"spawn", "group"}

\* C21, as stated: the number of pending directories on the stack never
\* exceeds MAX_PENDING_DIRS.
C21_PendingNeverExceedsCeiling == Len(dir_stack) <= MAX_PENDING_DIRS

\* C21, amended: the pushes are not limited, the test is made after a pop.
\* Whenever a pop leaves more than MAX_PENDING_DIRS directories pending, the
\* traversal stops there and discover_files returns Ok with the candidate
\* paths collected so far, reading no further directory; so no directory is
\* read while more than MAX_PENDING_DIRS directories are pending, and the
\* scan never ends in an error for it.
C21_CeilingStopsTheTraversal ==
  /\ [][(pc = "discover" /\ Len(dir_stack) > MAX_PENDING_DIRS + 1)
          => /\ DiscoverReturned'
             /\ pc' = EnterProcessFiles(file_paths)
             /\ file_paths' = file_paths
             /\ scanned' = scanned]_vars
  /\ [][scanned' # scanned => Len(dir_stack) - 1 <= MAX_PENDING_DIRS]_vars
  /\ [](pc = "done" => result.ok)

\* the traversal has stopped early: directories are left pending, none of
\* them was read, and the file found before is kept
C21_Witness ==
  /\ DiscoverReturned
  /\ Len(dir_stack) > MAX_PENDING_DIRS
  /\ scanned = {config.directory}
  /\ file_paths = <<PathOf(1)>>

(***************************************************************************)
(* Errors of the traversal (scanner.rs 188-209).                           *)
(***************************************************************************)
\* the read of entry n has failed: its directory was opened and listed
EntryReadFailed(n) ==
  /\ n \in Nodes \ {0}
  /\ fs[n].fault = "entry"
  /\ PathOf(fs[n].parent) \in scanned
  /\ ReadDirOk(PathOf(fs[n].parent))

\* the entries the directory of n lists after n
LaterEntries(n) == {m \in Nodes \ {0} : fs[m].parent = fs[n].parent /\ m > n}

\* C22: when reading one directory entry fails, the remaining contents of
\* that directory are skipped, no later entry of the same directory being
\* emitted as a candidate or pushed (and so read), and the traversal goes on
\* with the other pending directories until none is left.
C22_EntryErrorSkipsRestOfDirectory ==
  Traversed =>
    /\ dir_stack = <<>>
    /\ \A n \in Nodes : EntryReadFailed(n) =>
         /\ PathOf(n) \notin Candidates \cup scanned
         /\ \A m \in LaterEntries(n) :
              PathOf(m) \notin Candidates \cup scanned

(***************************************************************************)
(* Sizes within a group (scanner.rs 358-379, lib.rs 289-324).              *)
(***************************************************************************)
\* the records of the sequence do not all have the same size
DifferingSizes(files) ==
  \E a \in DOMAIN files, b \in DOMAIN files : files[a].size # files[b].size

\* C23: a digest bucket whose members differ in size is surfaced, not
\* tolerated in silence: group_duplicates produces no group for it, and the
\* scan does not end in an Ok result.  (group_duplicates has no error
\* return, no panic and no log statement of its own, so that a failed result
\* is the only signal the program could give.)
C23_DifferingSizesAreSurfaced ==
  \A h \in GroupKeys(file_infos) :
    DifferingSizes(Bucket(file_infos, h)) =>
      /\ \A i \in DOMAIN groups : groups[i].hash # h
      /\ ~ScanOk

\* C24: in every DuplicateGroup of every ScanResult each member's size is
\* the group's size field, in every run, rewrites of files between the
\* fs::metadata and the hashing of from_path included; distinct contents
\* have distinct digests here.
C24_MemberSizeIsGroupSize ==
  ScanOk =>
    \A i \in DOMAIN result.duplicate_groups :
      LET g == result.duplicate_groups[i]
      IN  \A k \in DOMAIN g.files : g.files[k].size = g.size

(***************************************************************************)
(* Unreadable directories (scanner.rs 188-195).                            *)
(***************************************************************************)
DirNodes == {n \in Nodes \ {0} : fs[n].kind = "dir"}

\* the directory on top of the stack comes to fs::read_dir, which fails
ReadDirFails ==
  /\ pc = "discover"
  /\ dir_stack # <<>>
  /\ ~TooManyPending(SubSeq(dir_stack, 1, Len(dir_stack) - 1))
  /\ ~DepthLimitReached(dir_stack[Len(dir_stack)].depth)
  /\ ~ReadDirOk(dir_stack[Len(dir_stack)].path)

\* every directory above n is a directory that can be read
ListedByReadableDirectories(n) ==
  /\ fs[0].kind = "dir" /\ fs[0].fault = "none"
  /\ \A a \in Ancestors(n) \ {n} : fs[a].kind = "dir" /\ fs[a].fault = "none"

\* C25: when fs::read_dir fails for a directory, discover_files skips that
\* directory alone: the traversal goes on, the candidate paths collected so
\* far are kept and the pending directories stay on the stack; no error
\* comes of it, and when discover_files returns Ok every directory listed by
\* directories that can be read has been processed, none being left pending
\* (no depth limit set).
C25_UnreadableDirectoryAloneIsSkipped ==
  /\ [][ReadDirFails =>
          /\ pc' = "discover"
          /\ file_paths' = file_paths
          /\ dir_stack' = SubSeq(dir_stack, 1, Len(dir_stack) - 1)]_vars
  /\ []((pc = "done" /\ ~result.ok) => validate_config # "Ok")
  /\ [](Traversed =>
          /\ dir_stack = <<>>
          /\ config.max_depth = 0 =>
               \A n \in DirNodes :
                 ListedByReadableDirectories(n) => PathOf(n) \in scanned)

\* the traversal has gone past a directory that could not be read and has
\* then processed the directory that was pending below it on the stack
C25_Witness ==
  /\ Traversed
  /\ \E u \in DirNodes, v \in DirNodes :
       /\ fs[u].parent = fs[v].parent /\ u < v
       /\ fs[u].fault = "read"
       /\ {PathOf(u), PathOf(v)} \subseteq scanned

(***************************************************************************)
(* The permits (scanner.rs 307-341).                                       *)
(***************************************************************************)
\* task i ends in this step: with a record, with an error or with a panic
Completes(i) ==
  /\ i \in DOMAIN tasks /\ Len(tasks') = Len(tasks)
  /\ tasks[i].st \notin {"done", "panicked"}
  /\ tasks'[i].st \in {"done", "panicked"}

\* C26: every hashing task gives its permit back when it completes, whether
\* from_path succeeded, returned an error or the task panicked: the step
\* that completes a task adds one permit, the tasks that have completed hold
\* none, and so all N permits are available whenever the tasks of a batch
\* have all completed, when the batch has been awaited and when
\* process_files has returned.
C26_PermitsAreReleased ==
  /\ [][\A i \in DOMAIN tasks :
          Completes(i) => i \in Holders /\ permits' = permits + 1]_vars
  /\ [](/\ permits = SemaphoreSize - Cardinality(Holders)
        /\ Unfinished = {} => permits = SemaphoreSize
        /\ tasks = <<>> => permits = SemaphoreSize
        /\ pc \in {"group", "aggregate", "done"} => permits = SemaphoreSize)

\* process_files has returned with every permit available after a task that
\* gave a record, a task whose from_path returned an error and a task that
\* panicked
C26_Witness ==
  /\ pc = "group"
  /\ permits = SemaphoreSize
  /\ Len(file_paths) = 3
  /\ file_infos # <<>>
  /\ \E k \in DOMAIN dropped : dropped[k].cause = "done"
  /\ \E k \in DOMAIN dropped : dropped[k].cause = "panicked"

(***************************************************************************)
(* The order of the records (scanner.rs 300-344, 360-362).                 *)
(***************************************************************************)
\* the paths of file_paths at the places in S, in the order of file_paths
PathsAt(S) ==
  LET chosen(k) == k \in S
      places == SelectSeq([k \in 1..Len(file_paths) |-> k], chosen)
  IN  [i \in 1..Len(places) |-> file_paths[places[i]]]

\* the members of the sequence that were modified at time t
ModifiedAt(files, t) ==
  LET at(f) == f.modified = t
  IN  SelectSeq(files, at)

\* C27: the records process_files has collected are, in the order of the
\* candidate path list, the records of the paths awaited so far but for the
\* paths whose task gave none, whatever the order the tasks completed in;
\* and the members of every group are in the order of their modified-time,
\* those of equal modified-time in the order of the path list.
C27_RecordsAndMembersInPathOrder ==
  /\ \E S \in SUBSET (1..Awaited) :
       /\ [i \in DOMAIN file_infos |-> file_infos[i].path] = PathsAt(S)
       /\ [i \in DOMAIN dropped |-> dropped[i].path] = PathsAt((1..Awaited) \ S)
  /\ \A i \in DOMAIN groups :
       LET g == groups[i]
       IN  /\ \A a \in DOMAIN g.files, b \in DOMAIN g.files :
                a < b => g.files[a].modified <= g.files[b].modified
           /\ \A t \in {g.files[k].modified : k \in DOMAIN g.files} :
                ModifiedAt(g.files, t) = ModifiedAt(Bucket(file_infos, g.hash), t)

\* of three paths the first has given no record and the two others, files
\* of the same content and modified-time, are the members of a group in the
\* order of the path list
C27_Witness ==
  /\ pc \in {"aggregate", "done"}
  /\ Len(file_paths) = 3
  /\ Len(dropped) = 1 /\ dropped[1].path = file_paths[1]
  /\ file_paths[2] # file_paths[3]
  /\ \E i \in DOMAIN groups :
       [k \in DOMAIN groups[i].files |-> groups[i].files[k].path]
         = <<file_paths[2], file_paths[3]>>

(***************************************************************************)
(* A root that is no readable directory (scanner.rs 119-136, 159-195).     *)
(***************************************************************************)
\* config.directory exists and fs::read_dir fails on it: it is a regular
\* file, or a directory that cannot be read
RootCannotBeRead ==
  fs[0].kind = "file" \/ (fs[0].kind = "dir" /\ fs[0].fault = "read")

SizeFilterValid == ~(config.max_size > 0 /\ config.min_size > config.max_size)

\* C28: when the root exists but is no readable directory (the size filter
\* being one that validation accepts), validation passes and the scan does
\* not fail: the read of the root is a skipped directory, no path is found
\* and no task is spawned, and scan returns Ok with no group, total_files 0,
\* total_duplicates 0 and total_wasted_space 0.
C28_RootThatCannotBeReadGivesEmptyResult ==
  (RootCannotBeRead /\ SizeFilterValid) =>
    /\ pc # "validate" => Validated
    /\ file_paths = <<>> /\ tasks = <<>> /\ file_infos = <<>>
    /\ scanned \subseteq {config.directory}
    /\ pc \notin {"spawn", "await"}
    /\ pc = "done" =>
         /\ result.ok
         /\ result.duplicate_groups = <<>>
         /\ result.total_files = 0
         /\ result.total_duplicates = 0
         /\ result.total_wasted_space = 0

\* the scan of a root that is a regular file has returned Ok, the read of
\* the root having been tried
C28_Witness ==
  /\ ScanOk
  /\ fs[0].kind = "file"
  /\ scanned = {config.directory}
  /\ result.duplicate_groups = <<>>


=============================================================================
